---- MODULE Spec2Model ----
(***************************************************************************)
(* Model of src/src/server.rs: the saved-reference store (SavedUiViewSet), *)
(* its subscriber fan-out, and the heartbeat of WebSocketStream.           *)
(*                                                                         *)
(* Strings are TLA+ strings, byte slices are sequences of 0..255.  The     *)
(* file system is a function from path strings to file contents.  Remote   *)
(* calls (pushes of frames to a subscriber, the ping of the heartbeat) are *)
(* dispatched by the handler that issues them and complete later, in a     *)
(* step of their own, with success or failure.                             *)
(***************************************************************************)
EXTENDS Integers, Sequences, FiniteSets, TLC

\* ------------------------------------------------------------------ bounds
MaxConns == 2   \* streaming connections ever opened (bounds next_id)
MaxCalls == 2   \* calls of insert / remove / update_description
MaxPings == 2   \* the count of pings sent saturates here
MaxShortLen == 130  \* every payload length from 0 to this one is encoded
MaxPosts == 2   \* POST requests that get as far as the claim of their token
MaxSegments == 3  \* segments of the paths offered to require_canonical_path

\* ------------------------------------------------------------------ inputs
Ids == 0 .. (MaxConns - 1)

RawTokens == { <<1, 2>>, <<255>> }

\* (title, added_by, time since the epoch) triples offered to insert
InsertInputs ==
  { [title |-> "My Grain", added_by |-> "alice", dur |-> [secs |-> 1, nanos |-> 2000000]],
    [title |-> "Notes",    added_by |-> "bob",   dur |-> [secs |-> 2, nanos |-> 999999] ] }

\* contents offered to update_description: "hi", "é", and a truncated "é"
DescriptionInputs == { <<104, 105>>, <<195, 169>>, <<195>> }

\* inbound frames offered to send_bytes
InFrames ==
  { <<138, 0>>,      \* 0x8A: pong
    <<137, 0>>,      \* 0x89: ping
    <<136, 0>>,      \* 0x88: close
    <<129, 130>>,    \* 0x81: text, mask bit set, length 2
    <<10, 0>>,       \* pong opcode without the FIN bit
    <<139, 0>>,      \* 0x8B: reserved opcode
    <<138>>,         \* one byte only
    <<>> }           \* empty

\* the UserInfo of the sessions: a writer and a reader without permissions
UserInfos ==
  { [permissions |-> << TRUE >>, identity_id |-> << 161, 28 >>],
    [permissions |-> << >>,      identity_id |-> << 11 >>] }

\* request paths, by their segments: the pieces between the "/"s
\* ("" is <<"">>, "a/b" is <<"a", "b">>, "a/" is <<"a", "">>)
Paths ==
  { << "" >>,                       \* ""
    << "description" >>,            \* "description"
    << "token", "rt" >>,            \* "token/rt"
    << "sturdyref", "AQI" >>,       \* "sturdyref/AQI"
    << "a", "..", "b" >>,           \* "a/../b"
    << "sturdyref", "..", "x" >> }  \* "sturdyref/../x"

\* the content of a POST: whether from_base64 accepts it, whether the decoded
\* bytes read as a PowerboxDescriptor, and the titles of its tags
PostContents ==
  { [base64 |-> FALSE, readable |-> FALSE, tags |-> << >>],
    [base64 |-> TRUE,  readable |-> FALSE, tags |-> << >>],
    [base64 |-> TRUE,  readable |-> TRUE,  tags |-> << "x", "Notes" >>] }

\* what the file system has for the file a GET looks up
Lookups == {"file", "dir", "absent"}

PostIds == 1 .. MaxPosts

\* the paths offered to require_canonical_path, by their segments: every
\* sequence of one to MaxSegments of these ("/a" is <<"", "a">>, "a//b" is
\* <<"a", "", "b">>, "a/" is <<"a", "">>)
Segments == { "", ".", "..", "a", "b", "c", "x" }
AllPaths == UNION { [1 .. n -> Segments] : n \in 1 .. MaxSegments }

\* lengths of the payloads offered to encode_websocket_message: the short
\* ones, and those around the limits of the 16-bit and the 64-bit length
PayloadLens == (0 .. MaxShortLen) \cup {255, 256, 257, 65535, 65536, 65537}

\* a text of n bytes (lower-case letters)
Text(n) == [i \in 1 .. n |-> 97 + (i % 26)]

Payloads == { Text(n) : n \in PayloadLens }

\* ------------------------------------------------------------------ paths
StorageRoot == "/var/sturdyrefs"
DescriptionPath == "/var/description"
DescriptionTempPath == "/var/description.uploading"
DefaultDescription ==
  <<116, 104, 105, 115, 32, 105, 115, 32, 97, 32, 100, 101, 115, 99, 114,
    105, 112, 116, 105, 111, 110>>

PathJoin(dir, name) == dir \o "/" \o name

\* ------------------------------------------------------------------ base64
UrlSafeChars ==
  << "A","B","C","D","E","F","G","H","I","J","K","L","M","N","O","P",
     "Q","R","S","T","U","V","W","X","Y","Z","a","b","c","d","e","f",
     "g","h","i","j","k","l","m","n","o","p","q","r","s","t","u","v",
     "w","x","y","z","0","1","2","3","4","5","6","7","8","9","-","_" >>

Sextet(n, shift) == UrlSafeChars[((n \div shift) % 64) + 1]

RECURSIVE ToBase64(_)
ToBase64(bytes) ==
  IF Len(bytes) = 0 THEN ""
  ELSE IF Len(bytes) = 1 THEN
    LET n == bytes[1] * 65536
    IN  Sextet(n, 262144) \o Sextet(n, 4096)
  ELSE IF Len(bytes) = 2 THEN
    LET n == bytes[1] * 65536 + bytes[2] * 256
    IN  Sextet(n, 262144) \o Sextet(n, 4096) \o Sextet(n, 64)
  ELSE
    LET n == bytes[1] * 65536 + bytes[2] * 256 + bytes[3]
    IN  Sextet(n, 262144) \o Sextet(n, 4096) \o Sextet(n, 64) \o Sextet(n, 1)
        \o ToBase64(SubSeq(bytes, 4, Len(bytes)))

Tokens == { ToBase64(r) : r \in RawTokens }

\* ------------------------------------------------------------------ utf-8
Cont(b) == b >= 128 /\ b <= 191

RECURSIVE IsUtf8(_)
IsUtf8(bs) ==
  IF Len(bs) = 0 THEN TRUE
  ELSE
    LET b1 == bs[1]
        n  == Len(bs)
        rest(k) == SubSeq(bs, k + 1, n)
    IN  IF b1 < 128 THEN IsUtf8(rest(1))
        ELSE IF b1 >= 194 /\ b1 <= 223 THEN
          n >= 2 /\ Cont(bs[2]) /\ IsUtf8(rest(2))
        ELSE IF b1 >= 224 /\ b1 <= 239 THEN
          /\ n >= 3
          /\ Cont(bs[2]) /\ Cont(bs[3])
          /\ (b1 = 224 => bs[2] >= 160)
          /\ (b1 = 237 => bs[2] <= 159)
          /\ IsUtf8(rest(3))
        ELSE IF b1 >= 240 /\ b1 <= 244 THEN
          /\ n >= 4
          /\ Cont(bs[2]) /\ Cont(bs[3]) /\ Cont(bs[4])
          /\ (b1 = 240 => bs[2] >= 144)
          /\ (b1 = 244 => bs[2] <= 143)
          /\ IsUtf8(rest(4))
        ELSE FALSE

\* ------------------------------------------------------------------ data
SavedUiViewData(title, date_added, added_by) ==
  [title |-> title, date_added |-> date_added, added_by |-> added_by]

NoData == SavedUiViewData("", 0, "")

\* dur.as_secs() * 1000 + dur.subsec_nanos() / 1000000
DateAdded(dur) == dur.secs * 1000 + (dur.nanos \div 1000000)

\* enum Action; one record shape for the four variants
ActionInsert(token, data) ==
  [tag |-> "insert", token |-> token, data |-> data, flag |-> FALSE, text |-> <<>>]
ActionRemove(token) ==
  [tag |-> "remove", token |-> token, data |-> NoData, flag |-> FALSE, text |-> <<>>]
ActionCanWrite(b) ==
  [tag |-> "canWrite", token |-> "", data |-> NoData, flag |-> b, text |-> <<>>]
ActionDescription(s) ==
  [tag |-> "description", token |-> "", data |-> NoData, flag |-> FALSE, text |-> s]

\* file contents
MetadataFile(data) == [kind |-> "metadata", data |-> data, bytes |-> <<>>]
PartialFile == [kind |-> "partial", data |-> NoData, bytes |-> <<>>]
TextFile(bytes) == [kind |-> "text", data |-> NoData, bytes |-> bytes]

WriteFile(d, path, content) == (path :> content) @@ d
RemoveFile(d, path) == [p \in (DOMAIN d) \ {path} |-> d[p]]
EmptyMap == [p \in {} |-> NoData]
EmptyDisk == [p \in {} |-> PartialFile]


\* ------------------------------------------------------------------ state
VARIABLES
  disk,           \* the file system: path -> file contents
  base_path,      \* SavedUiViewSet.base_path
  views,          \* SavedUiViewSet.views: token -> SavedUiViewData
  description,    \* SavedUiViewSet.description (the bytes of the String)
  next_id,        \* SavedUiViewSet.next_id
  subscribers,    \* keys of SavedUiViewSet.subscribers (id c maps to client stream c)
  streams,        \* ids of the WebSocketStream objects that exist (created, not dropped)
  awaiting_pong,  \* WebSocketStream.awaiting_pong, per id
  hb,             \* position of the stream's do_ping_pong chain, per id
  pings,          \* pings sent on the stream so far (saturating at MaxPings)
  close_received, \* ids of the streams on which a frame with opcode 0x8 came in
  outbox,         \* notification frames dispatched to client stream c, in order
  delivered,      \* pushes to c whose call completed successfully
  failedPushes,   \* pushes to c whose call failed (handed to the Reaper)
  calls,          \* number of store calls made so far
  lastCall,       \* the last store call: its arguments, I/O outcome and result
  crashed,        \* the process has panicked
  payload,        \* encode_websocket_message: the text to encode
  frame,          \* encode_websocket_message: the bytes set as the request's message
  chains,         \* the POST requests whose chain of remote calls was started
  lastReq,        \* the verb of the last request a WebSession handled, and its response
  req_path,       \* require_canonical_path: the path to check
  canonical       \* require_canonical_path: "ok" or "err" once it has returned

vars == << disk, base_path, views, description, next_id, subscribers, streams,
           awaiting_pong, hb, pings, close_received, outbox, delivered,
           failedPushes, calls, lastCall, crashed, payload, frame, chains,
           lastReq, req_path, canonical >>

storeVars == << disk, base_path, views, description >>
connVars  == << next_id, subscribers, streams >>
hbVars    == << awaiting_pong, hb, pings, close_received >>
pushVars  == << delivered, failedPushes >>
callVars  == << calls, lastCall >>
codecVars == << payload, frame >>
sessVars  == << chains, lastReq >>
pathVars  == << req_path, canonical >>

Call(op, token, data, bytes, io, ok) ==
  [op |-> op, token |-> token, data |-> data, bytes |-> bytes, io |-> io, ok |-> ok]

\* ------------------------------------------------------------------ responses
\* what a call of the WebSession returns: a response, or "exception" when the
\* call itself fails (Promise::err); "pending" while a POST's chain runs,
\* "unset" when the handler returns without initialising the results
Response(kind, status, text) == [kind |-> kind, status |-> status, text |-> text]
Content == Response("content", "ok", "")
NoContent == Response("noContent", "", "")
Redirect == Response("redirect", "", "")
ClientError(status, text) == Response("clientError", status, text)
Exception(text) == Response("exception", "", text)
InProgress == Response("pending", "", "")
Unset == Response("unset", "", "")

Request(verb, response) == [verb |-> verb, response |-> response]

\* the remote calls of a POST, in the order of the code
ChainCalls == << "claimRequest", "getViewInfo", "getUrl", "save" >>

\* the error of a remote call that failed
RemoteError(call) == call \o " failed"

\* format!("error: {:?}", e)
DescriptionHtml(e) == "error: " \o e

\* a POST request: the call awaited ("none": no such request yet, "done":
\* answered), the calls issued and their outcomes, the inserts made
NoChain ==
  [awaiting |-> "none", request_token |-> "", grain_title |-> "", identity_id |-> "",
   issued |-> << >>, outcomes |-> << >>, inserts |-> << >>, response |-> Unset]

\* ------------------------------------------------------------------ open
\* read_dir: the names of the files directly under dir
ReadDir(d, dir) == { n \in Tokens : PathJoin(dir, n) \in DOMAIN d }

\* SavedUiViewSet::new: scan the token directory, load or create the description
SavedUiViewSetNew(token_directory, d) ==
  LET names == ReadDir(d, token_directory)
      readable == \A n \in names : d[PathJoin(token_directory, n)].kind = "metadata"
      map == [n \in names |-> d[PathJoin(token_directory, n)].data]
      hasDesc == DescriptionPath \in DOMAIN d
      desc == IF hasDesc
              THEN (IF d[DescriptionPath].kind = "text" /\ IsUtf8(d[DescriptionPath].bytes)
                    THEN d[DescriptionPath].bytes ELSE <<>>)
              ELSE DefaultDescription
      after == IF hasDesc THEN d
               ELSE WriteFile(d, DescriptionPath, TextFile(DefaultDescription))
  IN  IF readable
      THEN [ok |-> TRUE, views |-> map, description |-> desc, disk |-> after]
      ELSE [ok |-> FALSE, views |-> EmptyMap, description |-> <<>>, disk |-> d]

\* what the disk may hold when the process starts
InitialDisks ==
  { WriteFile(EmptyDisk, PathJoin(StorageRoot, ToBase64(<<1, 2>>)),
              MetadataFile(SavedUiViewData("Old", 7, "carol"))) }

Init ==
  \E d0 \in InitialDisks :
    LET r == SavedUiViewSetNew(StorageRoot, d0)
    IN  /\ r.ok
        /\ disk = r.disk
        /\ base_path = StorageRoot
        /\ views = r.views
        /\ description = r.description
        /\ next_id = 0
        /\ subscribers = {}
        /\ streams = {}
        /\ awaiting_pong = [c \in Ids |-> FALSE]
        /\ hb = [c \in Ids |-> "None"]
        /\ pings = [c \in Ids |-> 0]
        /\ close_received = {}
        /\ outbox = [c \in Ids |-> <<>>]
        /\ delivered = [c \in Ids |-> 0]
        /\ failedPushes = [c \in Ids |-> 0]
        /\ calls = 0
        /\ lastCall = Call("none", "", NoData, <<>>, "none", TRUE)
        /\ crashed = FALSE
        /\ payload = <<>>
        /\ frame = <<>>
        /\ chains = [k \in PostIds |-> NoChain]
        /\ lastReq = Request("none", Unset)
        /\ req_path = << "" >>
        /\ canonical = "unchecked"

\* ------------------------------------------------------------------ fan-out
\* mutant: the frame is put ahead of the frames dispatched before
SendMessageAhead(message) ==
  [c \in Ids |-> IF c \in subscribers THEN << message >> \o outbox[c] ELSE outbox[c]]

\* mutant: the loop ends after the first subscriber
SendMessageToFirstSubscriber(message) ==
  [c \in Ids |-> IF c \in subscribers /\ \A d \in subscribers : c <= d
                 THEN Append(outbox[c], message) ELSE outbox[c]]

\* mutant: the loop ends at the first subscriber one of whose pushes has failed
SendMessageWhileHealthy(message) ==
  [c \in Ids |-> IF c \in subscribers /\ \A d \in subscribers : d <= c => failedPushes[d] = 0
                 THEN Append(outbox[c], message) ELSE outbox[c]]

\* send_message_to_subscribers: one send_bytes request per registered subscriber
SendMessageToSubscribers(message) ==
  [c \in Ids |-> IF c \in subscribers THEN Append(outbox[c], message) ELSE outbox[c]]

\* ------------------------------------------------------------------ store
\* mutant: an entry that exists already is kept (first write wins)
InsertKeepsFirst(binary_token, title, added_by, dur, io) ==
  LET token == ToBase64(binary_token)
      date_added == DateAdded(dur)
      token_path == PathJoin(base_path, token)
      entry == SavedUiViewData(title, date_added, added_by)
  IN  /\ ~crashed
      /\ calls < MaxCalls
      /\ calls' = calls + 1
      /\ lastCall' = Call("insert", token, entry, binary_token, io, io = "ok")
      /\ IF io = "create_failed" THEN
           UNCHANGED << disk, outbox, views >>
         ELSE IF io = "write_failed" THEN
           /\ disk' = WriteFile(disk, token_path, PartialFile)
           /\ UNCHANGED << outbox, views >>
         ELSE
           /\ disk' = WriteFile(disk, token_path, MetadataFile(entry))
           /\ outbox' = SendMessageToSubscribers(ActionInsert(token, entry))
           /\ views' = views @@ (token :> entry)
      /\ UNCHANGED << base_path, description, connVars, hbVars, pushVars, crashed,
                     codecVars, pathVars >>

\* SavedUiViewSet::insert.  io: "ok", "create_failed" (File::create fails) or
\* "write_failed" (write_message fails on the created file)
Insert(binary_token, title, added_by, dur, io) ==
  LET token == ToBase64(binary_token)
      date_added == DateAdded(dur)
      token_path == PathJoin(base_path, token)
      entry == SavedUiViewData(title, date_added, added_by)
  IN  /\ ~crashed
      /\ calls < MaxCalls
      /\ calls' = calls + 1
      /\ lastCall' = Call("insert", token, entry, binary_token, io, io = "ok")
      /\ IF io = "create_failed" THEN
           UNCHANGED << disk, outbox, views >>
         ELSE IF io = "write_failed" THEN
           /\ disk' = WriteFile(disk, token_path, PartialFile)
           /\ UNCHANGED << outbox, views >>
         ELSE
           /\ disk' = WriteFile(disk, token_path, MetadataFile(entry))
           /\ outbox' = SendMessageToSubscribers(ActionInsert(token, entry))
           /\ views' = (token :> entry) @@ views
      /\ UNCHANGED << base_path, description, connVars, hbVars, pushVars, crashed,
                     codecVars, pathVars >>

\* mutant: remove deletes under another directory than the one insert writes to
RemoveRootElsewhere == "/var/elsewhere"

\* the root under which remove deletes
RemoveRoot == "/var/sturdyrefs"

\* mutant: every error of remove_file is returned, not-found too
RemoveReturnsEveryErr(io) == io # "ok"

\* remove returns the error of remove_file unless its kind is NotFound
RemoveReturnsErr(io) == io # "ok" /\ io # "not_found"

\* SavedUiViewSet::remove.  io is what remove_file returns: "ok", "not_found"
\* or "error" (any other error)
Remove(token, io) ==
  LET path == PathJoin(RemoveRoot, token)
  IN  /\ ~crashed
      /\ calls < MaxCalls
      /\ io \in (IF path \in DOMAIN disk THEN {"ok", "error"} ELSE {"not_found", "error"})
      /\ calls' = calls + 1
      /\ lastCall' = Call("remove", token, NoData, <<>>, io, ~RemoveReturnsErr(io))
      /\ IF RemoveReturnsErr(io) THEN
           UNCHANGED << disk, outbox, views >>
         ELSE
           /\ disk' = RemoveFile(disk, path)
           /\ outbox' = SendMessageToSubscribers(ActionRemove(token))
           /\ views' = [t \in (DOMAIN views) \ {token} |-> views[t]]
      /\ UNCHANGED << base_path, description, connVars, hbVars, pushVars, crashed,
                     codecVars, pathVars >>

\* mutant: the description in memory is set before the file is written
UpdateDescriptionEager(bytes, io) ==
  /\ ~crashed
  /\ calls < MaxCalls
  /\ calls' = calls + 1
  /\ IF ~IsUtf8(bytes) THEN
       /\ io = "ok"
       /\ lastCall' = Call("update_description", "", NoData, bytes, "invalid_utf8", FALSE)
       /\ UNCHANGED << disk, description, outbox >>
     ELSE
       /\ lastCall' = Call("update_description", "", NoData, bytes, io, io = "ok")
       /\ description' = bytes
       /\ IF io = "create_failed" THEN
            UNCHANGED << disk, outbox >>
          ELSE IF io = "write_failed" THEN
            /\ disk' = WriteFile(disk, DescriptionTempPath, PartialFile)
            /\ UNCHANGED outbox
          ELSE IF io = "rename_failed" THEN
            /\ disk' = WriteFile(disk, DescriptionTempPath, TextFile(bytes))
            /\ UNCHANGED outbox
          ELSE
            /\ disk' = WriteFile(RemoveFile(disk, DescriptionTempPath),
                                 DescriptionPath, TextFile(bytes))
            /\ outbox' = SendMessageToSubscribers(ActionDescription(bytes))
  /\ UNCHANGED << base_path, views, connVars, hbVars, pushVars, crashed,
                     codecVars, pathVars >>

\* SavedUiViewSet::update_description.  io: "ok", "create_failed",
\* "write_failed" or "rename_failed"
UpdateDescription(bytes, io) ==
  /\ ~crashed
  /\ calls < MaxCalls
  /\ calls' = calls + 1
  /\ IF ~IsUtf8(bytes) THEN
       /\ io = "ok"
       /\ lastCall' = Call("update_description", "", NoData, bytes, "invalid_utf8", FALSE)
       /\ UNCHANGED << disk, description, outbox >>
     ELSE
       /\ lastCall' = Call("update_description", "", NoData, bytes, io, io = "ok")
       /\ IF io = "create_failed" THEN
            UNCHANGED << disk, description, outbox >>
          ELSE IF io = "write_failed" THEN
            /\ disk' = WriteFile(disk, DescriptionTempPath, PartialFile)
            /\ UNCHANGED << description, outbox >>
          ELSE IF io = "rename_failed" THEN
            /\ disk' = WriteFile(disk, DescriptionTempPath, TextFile(bytes))
            /\ UNCHANGED << description, outbox >>
          ELSE
            /\ disk' = WriteFile(RemoveFile(disk, DescriptionTempPath),
                                 DescriptionPath, TextFile(bytes))
            /\ description' = bytes
            /\ outbox' = SendMessageToSubscribers(ActionDescription(bytes))
  /\ UNCHANGED << base_path, views, connVars, hbVars, pushVars, crashed,
                     codecVars, pathVars >>


\* ------------------------------------------------------------------ subscribe
\* the orders in which a HashMap with key set S may be iterated
Orders(S) ==
  { o \in [1 .. Cardinality(S) -> S] : \A i, j \in DOMAIN o : i # j => o[i] # o[j] }

\* mutant: the description is sent before the write flag
ReplayDescriptionFirst(can_write, order) ==
  << ActionDescription(description), ActionCanWrite(can_write) >>
    \o [i \in 1 .. Len(order) |-> ActionInsert(order[i], views[order[i]])]

\* mutant: the stored references are not replayed
ReplayWithoutViews(can_write, order) ==
  << ActionCanWrite(can_write), ActionDescription(description) >>

\* the frames new_subscribed_websocket dispatches to the new client stream
Replay(can_write, order) ==
  << ActionCanWrite(can_write), ActionDescription(description) >>
    \o [i \in 1 .. Len(order) |-> ActionInsert(order[i], views[order[i]])]

\* do_ping_pong: send the ping frame [0x89, 0] and set awaiting_pong
DoPingPong(c) ==
  /\ awaiting_pong' = [awaiting_pong EXCEPT ![c] = TRUE]
  /\ hb' = [hb EXCEPT ![c] = "Sending"]
  /\ pings' = [pings EXCEPT ![c] = IF @ < MaxPings THEN @ + 1 ELSE @]

\* WebSession::open_web_socket -> SavedUiViewSet::new_subscribed_websocket
\* -> WebSocketStream::new.  order is the iteration order of views.
NewSubscribedWebsocket(can_write, order) ==
  LET id == next_id
  IN  /\ ~crashed
      /\ next_id < MaxConns
      /\ order \in Orders(DOMAIN views)
      /\ next_id' = id + 1
      /\ subscribers' = subscribers \cup {id}
      /\ outbox' = [outbox EXCEPT ![id] = Replay(can_write, order)]
      /\ streams' = streams \cup {id}
      /\ DoPingPong(id)
      /\ UNCHANGED << storeVars, close_received, pushVars, callVars, codecVars, pathVars, sessVars, crashed >>

\* mutant: the id of a dropped stream is handed out again
DropReleasesId(c) ==
  /\ ~crashed
  /\ c \in streams
  /\ streams' = streams \ {c}
  /\ subscribers' = subscribers \ {c}
  /\ next_id' = c
  /\ hb' = [hb EXCEPT ![c] = "Cancelled"]
  /\ awaiting_pong' = [awaiting_pong EXCEPT ![c] = FALSE]
  /\ UNCHANGED << storeVars, pings, close_received, outbox, pushVars, callVars, codecVars, pathVars, sessVars, crashed >>

\* mutant: the dropped stream stays in the subscribers map
DropKeepsSubscription(c) ==
  /\ ~crashed
  /\ c \in streams
  /\ streams' = streams \ {c}
  /\ hb' = [hb EXCEPT ![c] = "Cancelled"]
  /\ awaiting_pong' = [awaiting_pong EXCEPT ![c] = FALSE]
  /\ UNCHANGED << storeVars, next_id, subscribers, pings, close_received, outbox,
                  pushVars, callVars, codecVars, pathVars, sessVars, crashed >>

\* Drop for WebSocketStream: the peer released the server stream.  The object's
\* fields go with it, its ping-pong promise is cancelled.
Drop(c) ==
  /\ ~crashed
  /\ c \in streams
  /\ streams' = streams \ {c}
  /\ subscribers' = subscribers \ {c}
  /\ hb' = [hb EXCEPT ![c] = "Cancelled"]
  /\ awaiting_pong' = [awaiting_pong EXCEPT ![c] = FALSE]
  /\ UNCHANGED << storeVars, next_id, pings, close_received, outbox, pushVars,
                  callVars, codecVars, pathVars, sessVars, crashed >>

\* ------------------------------------------------------------------ frames in
\* mutant: the high nibble of the first byte is taken for the opcode
OpcodeHighNibble(message) == (message[1] \div 16) * 16      \* message[0] & 0xf0

Opcode(message) == message[1] % 16          \* message[0] & 0xf
Masked(message) == message[2] >= 128        \* (message[1] & 0x80) != 0
Length(message) == message[2] % 128         \* message[1] & 0x7f

\* web_socket_stream::Server::send_bytes for WebSocketStream c
SendBytes(c, message) ==
  /\ ~crashed
  /\ c \in streams
  /\ IF Len(message) < 2 THEN
       \* message[0] or message[1] is out of bounds: the handler panics
       /\ crashed' = TRUE
       /\ UNCHANGED << awaiting_pong, close_received >>
     ELSE
       /\ awaiting_pong' = [awaiting_pong EXCEPT ![c] =
                              IF Opcode(message) = 10 THEN FALSE ELSE @]
       \* 0x8, TERMINATE: nothing is dropped; the model only notes the frame
       /\ close_received' = IF Opcode(message) = 8 THEN close_received \cup {c}
                                                   ELSE close_received
       /\ UNCHANGED crashed
  /\ UNCHANGED << storeVars, connVars, hb, pings, outbox, pushVars, callVars, codecVars, pathVars, sessVars >>

\* ------------------------------------------------------------------ frames out
U8(x) == x % 256                                     \* x as u8
\* x >> k for a usize x; every length of the model is below 2^31
Shr(x, k) == IF k >= 31 THEN 0 ELSE x \div (2 ^ k)

\* mutant: the 16-bit length is written low byte first
LengthBytesLittleEndian(len) ==
  IF len < 126 THEN << U8(len) >>
  ELSE << 126, U8(len), U8(Shr(len, 8)) >>

\* the bytes encode_websocket_message pushes after 0x81 for a text of len bytes
LengthBytes(len) ==
  IF len < 126 THEN << U8(len) >>
  ELSE IF len < 65536 THEN << 126, U8(Shr(len, 8)), U8(len) >>
  ELSE << 127, U8(Shr(len, 56)), U8(Shr(len, 48)), U8(Shr(len, 40)), U8(Shr(len, 32)),
          U8(Shr(len, 16)), U8(Shr(len, 24)), U8(Shr(len, 8)), U8(len) >>

\* mutant: the mask bit is set in the second byte
EncodeWithMaskBit(text) ==
  << 129 >> \o [LengthBytes(Len(text)) EXCEPT ![1] = @ + 128] \o text

\* encode_websocket_message: what params.set_message is given
EncodeWebsocketMessage(text) == << 129 >> \o LengthBytes(Len(text)) \o text

\* a call of encode_websocket_message on the text in message
Encode ==
  /\ frame = <<>>
  /\ frame' = EncodeWebsocketMessage(payload)
  /\ UNCHANGED << storeVars, connVars, hbVars, outbox, pushVars, callVars, crashed,
                  payload, sessVars, pathVars >>

\* ------------------------------------------------------------------ session
HexChars == << "0","1","2","3","4","5","6","7","8","9","a","b","c","d","e","f" >>

RECURSIVE ToHex(_)
ToHex(bytes) ==
  IF Len(bytes) = 0 THEN ""
  ELSE HexChars[(bytes[1] \div 16) + 1] \o HexChars[(bytes[1] % 16) + 1] \o ToHex(Tail(bytes))

\* WebSession::new: bit 0 of the permissions is "write"
WebSessionNew(user_info) ==
  [can_write |-> Len(user_info.permissions) > 0 /\ user_info.permissions[1],
   identity_id |-> ToHex(user_info.identity_id)]

Sessions == { WebSessionNew(u) : u \in UserInfos }

\* path.split_terminator("/"): the segments, without an empty last one
SplitTerminator(path) ==
  IF path[Len(path)] = "" THEN SubSeq(path, 1, Len(path) - 1) ELSE path

\* mutant: an empty component is rejected only after the second one
RequireCanonicalPathLate(path) ==
  LET components == SplitTerminator(path)
  IN  \A idx \in DOMAIN components :
        ~ \/ components[idx] = "."
          \/ components[idx] = ".."
          \/ (components[idx] = "" /\ idx > 2)

\* require_canonical_path returns Ok
RequireCanonicalPath(path) ==
  LET components == SplitTerminator(path)
  IN  \A idx \in DOMAIN components :
        ~ \/ components[idx] = "."
          \/ components[idx] = ".."
          \/ (components[idx] = "" /\ idx > 1)

NonCanonicalPath == "non-canonical path"

\* a call of require_canonical_path on the path in req_path
CheckPath ==
  /\ canonical = "unchecked"
  /\ canonical' = IF RequireCanonicalPath(req_path) THEN "ok" ELSE "err"
  /\ UNCHANGED << storeVars, connVars, hbVars, outbox, pushVars, callVars, crashed,
                  codecVars, sessVars, req_path >>

\* path.starts_with(dir + "/")
StartsWith(path, dir) == Len(path) >= 2 /\ path[1] = dir

RECURSIVE JoinPath(_)
JoinPath(segments) ==
  IF Len(segments) = 0 THEN ""
  ELSE IF Len(segments) = 1 THEN segments[1]
  ELSE segments[1] \o "/" \o JoinPath(Tail(segments))

\* &path[n..], n the length of the first segment and its "/"
AfterPrefix(path) == JoinPath(Tail(path))

\* the title the loop over the tags leaves in grain_title
GrainTitle(tags) == IF Len(tags) = 0 THEN "" ELSE tags[Len(tags)]

\* read_file
ReadFile(fs) ==
  CASE fs = "file" -> Content
    [] fs = "absent" -> ClientError("notFound", "")
    [] OTHER -> Exception("io error")

\* the response of WebSession::get
GetResponse(path, fs) ==
  IF ~RequireCanonicalPath(path) THEN Exception(NonCanonicalPath)
  ELSE IF path = << "" >> THEN Content
  ELSE IF path = << "var" >> \/ path = << "var", "" >> THEN
    (IF fs = "dir" THEN Content ELSE Exception("io error"))
  ELSE IF StartsWith(path, "var") \/ path[Len(path)] = "" THEN ReadFile(fs)
  ELSE IF fs = "dir" THEN Redirect
  ELSE ReadFile(fs)

\* WebSession::get
Get(sess, path, fs) ==
  /\ ~crashed
  /\ lastReq' = Request("GET", GetResponse(path, fs))
  /\ UNCHANGED << storeVars, connVars, hbVars, outbox, pushVars, callVars, codecVars, pathVars,
                  crashed, chains >>

\* the errors with which WebSession::post returns before any remote call
PostRejects(path, content) ==
  IF ~RequireCanonicalPath(path) THEN Exception(NonCanonicalPath)
  ELSE IF ~StartsWith(path, "token") THEN ClientError("notFound", "")
  ELSE IF ~content.base64 THEN Exception("failed to convert from base64")
  ELSE IF ~content.readable THEN Exception("failed to read the message")
  ELSE InProgress

\* WebSession::post, up to the send of the claim request
Post(sess, path, content) ==
  LET response == PostRejects(path, content)
  IN  /\ ~crashed
      /\ lastReq' = Request("POST", response)
      /\ IF response # InProgress THEN UNCHANGED chains
         ELSE \E k \in PostIds :
                /\ chains[k].awaiting = "none"
                /\ \A j \in PostIds : j < k => chains[j].awaiting # "none"
                /\ chains' = [chains EXCEPT ![k] =
                     [awaiting |-> ChainCalls[1],
                      request_token |-> AfterPrefix(path),
                      grain_title |-> GrainTitle(content.tags),
                      identity_id |-> sess.identity_id,
                      issued |-> << ChainCalls[1] >>,
                      outcomes |-> << >>,
                      inserts |-> << >>,
                      response |-> InProgress]]
      /\ UNCHANGED << storeVars, connVars, hbVars, outbox, pushVars, callVars, codecVars, pathVars,
                      crashed >>

\* the chain of k ends with error e: then_else answers with a client error
ChainFails(k, e) ==
  [chains[k] EXCEPT !.awaiting = "done",
                    !.outcomes = Append(@, "err"),
                    !.response = ClientError("badRequest", DescriptionHtml(e))]

\* mutant: the continuation sends the next call whatever the outcome of the
\* call before
CallCompletesIgnoringErrors(k, ok) ==
  LET n == Len(chains[k].issued)
  IN  /\ ~crashed
      /\ chains[k].awaiting \in { ChainCalls[i] : i \in 1 .. 3 }
      /\ chains' = [chains EXCEPT ![k] =
            [chains[k] EXCEPT !.awaiting = ChainCalls[n + 1],
                              !.issued = Append(@, ChainCalls[n + 1]),
                              !.outcomes = Append(@, IF ok THEN "ok" ELSE "err")]]
      /\ UNCHANGED << storeVars, connVars, hbVars, outbox, pushVars, callVars, codecVars, pathVars,
                      crashed, lastReq >>

\* the claim, getViewInfo or getUrl call of POST k completes: its continuation
\* sends the next call; an error (of the call, or of the continuation's reads
\* of the response) ends the chain
CallCompletes(k, ok) ==
  LET n == Len(chains[k].issued)
  IN  /\ ~crashed
      /\ chains[k].awaiting \in { ChainCalls[i] : i \in 1 .. 3 }
      /\ chains' = [chains EXCEPT ![k] =
            IF ok THEN [chains[k] EXCEPT !.awaiting = ChainCalls[n + 1],
                                         !.issued = Append(@, ChainCalls[n + 1]),
                                         !.outcomes = Append(@, "ok")]
            ELSE ChainFails(k, RemoteError(chains[k].awaiting))]
      /\ UNCHANGED << storeVars, connVars, hbVars, outbox, pushVars, callVars, codecVars, pathVars,
                      crashed, lastReq >>

\* what the chain of k records of its call of insert
InsertCall(binary_token, title, added_by, ok) ==
  [binary_token |-> binary_token, title |-> title, added_by |-> added_by, ok |-> ok]

\* the save call of POST k completes: on success insert is called with the
\* token of the response, and the request is answered
SaveCompletes(k, ok, binary_token, dur, io) ==
  /\ chains[k].awaiting = ChainCalls[4]
  /\ IF ~ok THEN
       /\ ~crashed
       /\ binary_token = << >> /\ io = "ok"
       /\ chains' = [chains EXCEPT ![k] = ChainFails(k, RemoteError(chains[k].awaiting))]
       /\ UNCHANGED << storeVars, connVars, hbVars, outbox, pushVars, callVars,
                       codecVars, pathVars, crashed >>
     ELSE
       /\ binary_token # << >>
       /\ Insert(binary_token, chains[k].grain_title, chains[k].identity_id, dur, io)
       /\ chains' = [chains EXCEPT ![k] =
            [chains[k] EXCEPT
               !.awaiting = "done",
               !.outcomes = Append(@, "ok"),
               !.inserts = Append(@, InsertCall(binary_token, chains[k].grain_title,
                                                chains[k].identity_id, io = "ok")),
               !.response = IF io = "ok" THEN Content
                            ELSE ClientError("badRequest", DescriptionHtml(io))]]
  /\ UNCHANGED lastReq

\* mutant: PUT does not look at can_write
PutUngated(sess, path, content, io) ==
  /\ ~crashed
  /\ IF ~RequireCanonicalPath(path) THEN
       /\ lastReq' = Request("PUT", Exception(NonCanonicalPath))
       /\ io = "ok"
       /\ UNCHANGED << storeVars, connVars, hbVars, outbox, pushVars, callVars,
                       codecVars, pathVars, crashed >>
     ELSE IF path = << "description" >> THEN
       /\ UpdateDescription(content, io)
       /\ lastReq' = Request("PUT",
                             IF lastCall'.ok THEN NoContent ELSE Exception(lastCall'.io))
     ELSE
       /\ lastReq' = Request("PUT", Unset)
       /\ io = "ok"
       /\ UNCHANGED << storeVars, connVars, hbVars, outbox, pushVars, callVars,
                       codecVars, pathVars, crashed >>
  /\ UNCHANGED chains

\* WebSession::put
Put(sess, path, content, io) ==
  /\ ~crashed
  /\ IF ~RequireCanonicalPath(path) THEN
       /\ lastReq' = Request("PUT", Exception(NonCanonicalPath))
       /\ io = "ok"
       /\ UNCHANGED << storeVars, connVars, hbVars, outbox, pushVars, callVars,
                       codecVars, pathVars, crashed >>
     ELSE IF ~sess.can_write THEN
       /\ lastReq' = Request("PUT", ClientError("forbidden", ""))
       /\ io = "ok"
       /\ UNCHANGED << storeVars, connVars, hbVars, outbox, pushVars, callVars,
                       codecVars, pathVars, crashed >>
     ELSE IF path = << "description" >> THEN
       /\ UpdateDescription(content, io)
       /\ lastReq' = Request("PUT",
                             IF lastCall'.ok THEN NoContent ELSE Exception(lastCall'.io))
     ELSE
       /\ lastReq' = Request("PUT", Unset)
       /\ io = "ok"
       /\ UNCHANGED << storeVars, connVars, hbVars, outbox, pushVars, callVars,
                       codecVars, pathVars, crashed >>
  /\ UNCHANGED chains

\* WebSession::delete
Delete(sess, path, io) ==
  /\ ~crashed
  /\ IF ~RequireCanonicalPath(path) THEN
       /\ lastReq' = Request("DELETE", Exception(NonCanonicalPath))
       /\ io = "ok"
       /\ UNCHANGED << storeVars, connVars, hbVars, outbox, pushVars, callVars,
                       codecVars, pathVars, crashed >>
     ELSE IF ~StartsWith(path, "sturdyref") THEN
       /\ lastReq' = Request("DELETE",
                             Exception("DELETE only supported under sturdyref/"))
       /\ io = "ok"
       /\ UNCHANGED << storeVars, connVars, hbVars, outbox, pushVars, callVars,
                       codecVars, pathVars, crashed >>
     ELSE IF ~sess.can_write THEN
       /\ lastReq' = Request("DELETE", ClientError("forbidden", ""))
       /\ io = "ok"
       /\ UNCHANGED << storeVars, connVars, hbVars, outbox, pushVars, callVars,
                       codecVars, pathVars, crashed >>
     ELSE
       /\ Remove(AfterPrefix(path), io)
       /\ lastReq' = Request("DELETE",
                             IF lastCall'.ok THEN NoContent ELSE Exception(lastCall'.io))
  /\ UNCHANGED chains

\* ------------------------------------------------------------------ heartbeat
\* the send of the ping completes: on success the 10 s timer is started, on
\* failure the chain ends with the error (logged by WebSocketStream::new)
PingSendCompletes(c, ok) ==
  /\ ~crashed
  /\ c \in streams
  /\ hb[c] = "Sending"
  /\ hb' = [hb EXCEPT ![c] = IF ok THEN "Waiting" ELSE "SendFailed"]
  /\ UNCHANGED << storeVars, connVars, awaiting_pong, pings, close_received,
                  outbox, pushVars, callVars, codecVars, pathVars, sessVars, crashed >>

\* mutant: a heartbeat that times out takes the stream out of the subscribers
DeadlineFiresDeregisters(c) ==
  /\ ~crashed
  /\ c \in streams
  /\ hb[c] = "Waiting"
  /\ IF awaiting_pong[c] THEN
       /\ hb' = [hb EXCEPT ![c] = "Failed"]
       /\ subscribers' = subscribers \ {c}
       /\ UNCHANGED << awaiting_pong, pings >>
     ELSE
       /\ DoPingPong(c)
       /\ UNCHANGED subscribers
  /\ UNCHANGED << storeVars, next_id, streams, close_received, outbox, pushVars, callVars,
                  codecVars, pathVars, sessVars, crashed >>

\* mutant: the next ping is sent whether or not the pong came
DeadlineFiresAlwaysPings(c) ==
  /\ ~crashed
  /\ c \in streams
  /\ hb[c] = "Waiting"
  /\ DoPingPong(c)
  /\ UNCHANGED << storeVars, connVars, close_received, outbox, pushVars, callVars,
                  codecVars, pathVars, sessVars, crashed >>

\* the 10 s timer fires
DeadlineFires(c) ==
  /\ ~crashed
  /\ c \in streams
  /\ hb[c] = "Waiting"
  /\ IF awaiting_pong[c] THEN
       \* Promise::err("pong not received within 10 seconds"), mapped to Ok(())
       /\ hb' = [hb EXCEPT ![c] = "Failed"]
       /\ UNCHANGED << awaiting_pong, pings >>
     ELSE
       DoPingPong(c)
  /\ UNCHANGED << storeVars, connVars, close_received, outbox, pushVars, callVars, codecVars, pathVars, sessVars,
                  crashed >>

\* ------------------------------------------------------------------ pushes
\* the oldest pending push to client stream c completes; a failure goes to
\* Reaper::task_failed, which logs it
PushCompletes(c, ok) ==
  /\ ~crashed
  /\ delivered[c] + failedPushes[c] < Len(outbox[c])
  /\ IF ok THEN /\ delivered' = [delivered EXCEPT ![c] = @ + 1]
                /\ UNCHANGED failedPushes
           ELSE /\ failedPushes' = [failedPushes EXCEPT ![c] = @ + 1]
                /\ UNCHANGED delivered
  /\ UNCHANGED << storeVars, connVars, hbVars, outbox, callVars, codecVars, pathVars, sessVars, crashed >>

\* ------------------------------------------------------------------ spec
InsertIOs == {"ok", "create_failed", "write_failed"}
RemoveIOs == {"ok", "not_found", "error"}
UpdateIOs == {"ok", "create_failed", "write_failed", "rename_failed"}

StoreStep ==
  /\ \/ \E r \in RawTokens, i \in InsertInputs, io \in InsertIOs :
          Insert(r, i.title, i.added_by, i.dur, io)
     \/ \E t \in Tokens, io \in RemoveIOs : Remove(t, io)
     \/ \E b \in DescriptionInputs, io \in UpdateIOs : UpdateDescription(b, io)
  /\ UNCHANGED sessVars

SubscribeStep ==
  \E w \in BOOLEAN, o \in Orders(DOMAIN views) : NewSubscribedWebsocket(w, o)

DropStep == \E c \in Ids : Drop(c)

FrameStep == \E c \in Ids, m \in InFrames : SendBytes(c, m)

HeartbeatStep ==
  \/ \E c \in Ids, ok \in BOOLEAN : PingSendCompletes(c, ok)
  \/ \E c \in Ids : DeadlineFires(c)

PushStep == \E c \in Ids, ok \in BOOLEAN : PushCompletes(c, ok)

\* the time insert reads when a chain calls it
ChainDurations == { [secs |-> 3, nanos |-> 5000000] }

GetStep == \E sess \in Sessions, path \in Paths, fs \in Lookups : Get(sess, path, fs)

PostStep ==
  \E sess \in Sessions, path \in Paths, content \in PostContents : Post(sess, path, content)

PutStep ==
  \E sess \in Sessions, path \in Paths, content \in DescriptionInputs, io \in UpdateIOs :
    Put(sess, path, content, io)

DeleteStep == \E sess \in Sessions, path \in Paths, io \in RemoveIOs : Delete(sess, path, io)

SessionStep == GetStep \/ PostStep \/ PutStep \/ DeleteStep

ChainStep ==
  \/ \E k \in PostIds, ok \in BOOLEAN : CallCompletes(k, ok)
  \/ \E k \in PostIds, ok \in BOOLEAN, t \in RawTokens \cup { << >> },
        dur \in ChainDurations, io \in InsertIOs :
       SaveCompletes(k, ok, t, dur, io)

\* the whole program
Next ==
  \/ StoreStep
  \/ SubscribeStep
  \/ DropStep
  \/ FrameStep
  \/ HeartbeatStep
  \/ PushStep
  \/ SessionStep
  \/ ChainStep

Spec == Init /\ [][Next]_vars

(***************************************************************************)
(* The three groups of steps work on disjoint parts of the state: the      *)
(* heartbeat and frame steps change awaiting_pong, hb, pings and crashed   *)
(* only, the push completions change delivered and failedPushes only, and  *)
(* the store steps read and change neither.  Each group of claims is       *)
(* checked under the steps that change what it reads.                      *)
(***************************************************************************)
\* the store, its subscriber registry and the frames it dispatches
StoreNext == StoreStep \/ SubscribeStep \/ DropStep
StoreSpec == Init /\ [][StoreNext]_vars

\* the store and the completion of the pushes it dispatched
FanoutNext == StoreStep \/ SubscribeStep \/ PushStep
FanoutSpec == Init /\ [][FanoutNext]_vars

\* the connections and their heartbeat
HeartbeatNext == SubscribeStep \/ DropStep \/ FrameStep \/ HeartbeatStep
HeartbeatSpec == Init /\ [][HeartbeatNext]_vars

\* the event loop runs a timer that is due and a continuation whose call completed
HeartbeatFairSpec ==
  /\ HeartbeatSpec
  /\ \A c \in Ids : WF_vars(DeadlineFires(c))

\* the sessions: requests, the chains of the POSTs, and the subscribers that see
\* the changes they make to the store
SessionNext == SessionStep \/ ChainStep \/ SubscribeStep
SessionSpec == Init /\ [][SessionNext]_vars

\* the POSTs with their chains, and the subscribers that see their inserts
OrchestrationNext == PostStep \/ ChainStep \/ SubscribeStep
OrchestrationSpec == Init /\ [][OrchestrationNext]_vars

\* the request handlers of the sessions
FacadeNext == SessionStep
FacadeSpec == Init /\ [][FacadeNext]_vars

\* the sessions without the write permission: their requests, their upgrades
\* (open_web_socket passes the session's can_write) and the chains of their POSTs
Readers == { sess \in Sessions : ~sess.can_write }

ReaderStep ==
  \/ \E sess \in Readers, path \in Paths, fs \in Lookups : Get(sess, path, fs)
  \/ \E sess \in Readers, path \in Paths, content \in PostContents :
       Post(sess, path, content)
  \/ \E sess \in Readers, path \in Paths, content \in DescriptionInputs, io \in UpdateIOs :
       Put(sess, path, content, io)
  \/ \E sess \in Readers, path \in Paths, io \in RemoveIOs : Delete(sess, path, io)
  \/ \E sess \in Readers, o \in Orders(DOMAIN views) :
       NewSubscribedWebsocket(sess.can_write, o)

ReaderNext == ReaderStep \/ ChainStep
ReaderSpec == Init /\ [][ReaderNext]_vars

\* the frame codec on its own: a text is drawn, then encoded
CodecInit ==
  \E d0 \in InitialDisks, text \in Payloads :
    LET r == SavedUiViewSetNew(StorageRoot, d0)
    IN  /\ r.ok
        /\ disk = r.disk
        /\ base_path = StorageRoot
        /\ views = r.views
        /\ description = r.description
        /\ next_id = 0
        /\ subscribers = {}
        /\ streams = {}
        /\ awaiting_pong = [c \in Ids |-> FALSE]
        /\ hb = [c \in Ids |-> "None"]
        /\ pings = [c \in Ids |-> 0]
        /\ close_received = {}
        /\ outbox = [c \in Ids |-> <<>>]
        /\ delivered = [c \in Ids |-> 0]
        /\ failedPushes = [c \in Ids |-> 0]
        /\ calls = 0
        /\ lastCall = Call("none", "", NoData, <<>>, "none", TRUE)
        /\ crashed = FALSE
        /\ payload = text
        /\ frame = <<>>
        /\ chains = [k \in PostIds |-> NoChain]
        /\ lastReq = Request("none", Unset)
        /\ req_path = << "" >>
        /\ canonical = "unchecked"

CodecNext == Encode
CodecSpec == CodecInit /\ [][CodecNext]_vars

\* require_canonical_path on its own: a path is drawn, then checked
PathInit ==
  \E d0 \in InitialDisks, p \in AllPaths :
    LET r == SavedUiViewSetNew(StorageRoot, d0)
    IN  /\ r.ok
        /\ disk = r.disk
        /\ base_path = StorageRoot
        /\ views = r.views
        /\ description = r.description
        /\ next_id = 0
        /\ subscribers = {}
        /\ streams = {}
        /\ awaiting_pong = [c \in Ids |-> FALSE]
        /\ hb = [c \in Ids |-> "None"]
        /\ pings = [c \in Ids |-> 0]
        /\ close_received = {}
        /\ outbox = [c \in Ids |-> <<>>]
        /\ delivered = [c \in Ids |-> 0]
        /\ failedPushes = [c \in Ids |-> 0]
        /\ calls = 0
        /\ lastCall = Call("none", "", NoData, <<>>, "none", TRUE)
        /\ crashed = FALSE
        /\ payload = <<>>
        /\ frame = <<>>
        /\ chains = [k \in PostIds |-> NoChain]
        /\ lastReq = Request("none", Unset)
        /\ req_path = p
        /\ canonical = "unchecked"

PathNext == CheckPath
PathSpec == PathInit /\ [][PathNext]_vars

\* the connections, their heartbeat and the broadcasts of the store
TeardownNext == StoreStep \/ SubscribeStep \/ DropStep \/ HeartbeatStep
TeardownSpec == Init /\ [][TeardownNext]_vars


\* ------------------------------------------------------------------ helpers of the claims
\* a store call was made in this step
CallMade == calls' # calls
InsertSucceeded == CallMade /\ lastCall'.op = "insert" /\ lastCall'.ok
\* a connection was subscribed in this step; its id is next_id
Subscribed == next_id' # next_id

\* number of Insert notifications for token t among the frames in seq
InsertCount(seq, t) ==
  Cardinality({ i \in DOMAIN seq : seq[i].tag = "insert" /\ seq[i].token = t })

\* the frames sent to each client stream after message went to every id in subs
Broadcast(subs, message) ==
  [c \in Ids |-> IF c \in subs THEN Append(outbox[c], message) ELSE outbox[c]]

Pending(c) == Len(outbox[c]) - delivered[c] - failedPushes[c]

IsPong(m) == Len(m) >= 2 /\ m[1] % 16 = 10

\* the notification of the mutation a successful store call applied
MessageOf(call) ==
  CASE call.op = "insert" -> ActionInsert(call.token, call.data)
    [] call.op = "remove" -> ActionRemove(call.token)
    [] call.op = "update_description" -> ActionDescription(call.bytes)

\* the chain of POST k has ended with a failure: of a remote call, or of insert
FailedAt(k, i) == i \in DOMAIN chains[k].outcomes /\ chains[k].outcomes[i] = "err"
InsertFailed(k) == chains[k].inserts # << >> /\ ~chains[k].inserts[1].ok

\* the request was answered with a client error, no remote call was issued and
\* the store is as before
Rejected ==
  /\ lastReq'.response.kind = "clientError"
  /\ chains' = chains
  /\ UNCHANGED << storeVars, outbox >>

\* the files of the tokens: what is on disk directly under base_path
TokenFiles ==
  [p \in { q \in DOMAIN disk : \E t \in Tokens : q = PathJoin(base_path, t) } |-> disk[p]]

\* the ids handed out so far, and those whose stream was dropped since
HandedOut == { c \in Ids : hb[c] # "None" }
TornDown(c) == c \in HandedOut /\ c \notin streams

\* ------------------------------------------------------------------ C1
\* C1: a connection whose heartbeat timed out (the deadline fired while
\* awaiting_pong was true: Failed) is torn down, so its id is not in the
\* subscribers map.
C1_TimeoutTearsDown == \A c \in Ids : hb[c] = "Failed" => c \notin subscribers

\* ------------------------------------------------------------------ C2
\* C2: a pong frame clears awaiting_pong, nothing but the start of a new ping
\* cycle sets it again, so it is false at the deadline; the deadline firing
\* with awaiting_pong false starts a new cycle (ping sent, awaiting_pong true)
\* and never fails the heartbeat; and such a deadline does fire, so the cycle
\* keeps going for as long as the pongs arrive in time.
C2_HeartbeatContinues ==
  /\ [](\A c \in streams, m \in InFrames :
          (IsPong(m) /\ ~crashed) => ENABLED (SendBytes(c, m) /\ ~awaiting_pong'[c]))
  /\ [][\A c \in Ids :
          /\ \A m \in InFrames : (IsPong(m) /\ SendBytes(c, m)) => ~awaiting_pong'[c]
          /\ (~awaiting_pong[c] /\ awaiting_pong'[c]) =>
               (hb'[c] = "Sending" /\ hb[c] \in {"None", "Waiting"})
          /\ (hb[c] = "Waiting" /\ ~awaiting_pong[c] /\ hb'[c] # "Waiting") =>
               \/ hb'[c] = "Sending" /\ awaiting_pong'[c] /\ c \in streams'
               \/ c \notin streams'
          /\ (hb[c] # "Failed" /\ hb'[c] = "Failed") =>
               (hb[c] = "Waiting" /\ awaiting_pong[c])
       ]_vars
  /\ \A c \in Ids :
       (hb[c] = "Waiting" /\ ~awaiting_pong[c])
          ~> (hb[c] = "Sending" \/ c \notin streams \/ crashed)

\* a second ping cycle is running: the first one's pong came in time
C2_Witness ==
  \E c \in Ids : c \in streams /\ pings[c] >= 2 /\ hb[c] = "Sending" /\ awaiting_pong[c]

\* ------------------------------------------------------------------ C3
\* C3: the in-memory map equals the map SavedUiViewSet::new builds from the
\* files on disk.
C3_DurabilityRoundTrip ==
  LET r == SavedUiViewSetNew(base_path, disk)
  IN  r.ok /\ r.views = views

\* ------------------------------------------------------------------ C4
\* C4: every token in views has a file under base_path; after a successful
\* remove the token is in neither views nor the directory, and a failed remove
\* changes neither.
C4_StoreInvariant ==
  /\ [](\A t \in DOMAIN views : PathJoin(base_path, t) \in DOMAIN disk)
  /\ [][(CallMade /\ lastCall'.op = "remove") =>
          LET t == lastCall'.token
          IN  IF lastCall'.ok
              THEN t \notin DOMAIN views' /\ PathJoin(base_path, t) \notin DOMAIN disk'
              ELSE views' = views /\ disk' = disk
       ]_vars

\* a token that had an entry and a file was removed: both are gone
C4_Witness ==
  /\ lastCall.op = "remove" /\ lastCall.io = "ok" /\ lastCall.ok
  /\ lastCall.token \notin DOMAIN views
  /\ PathJoin(base_path, lastCall.token) \notin DOMAIN disk

\* ------------------------------------------------------------------ C5
\* C5: after a successful insert the entry is stored under the derived token
\* with the title and added_by given, the token's file exists under base_path,
\* and exactly one Insert notification with that token and data was pushed to
\* each registered subscriber (and none to anyone else).
C5_SuccessfulInsert ==
  [][InsertSucceeded =>
       LET t == lastCall'.token
           e == lastCall'.data
       IN  /\ t = ToBase64(lastCall'.bytes)
           /\ t \in DOMAIN views'
           /\ views'[t].title = e.title
           /\ views'[t].added_by = e.added_by
           /\ PathJoin(base_path, t) \in DOMAIN disk'
           /\ disk'[PathJoin(base_path, t)] = MetadataFile(e)
           /\ outbox' = Broadcast(subscribers, ActionInsert(t, e))
    ]_vars

\* an insert succeeded while two subscribers were registered
C5_Witness ==
  /\ lastCall.op = "insert" /\ lastCall.ok
  /\ subscribers = {0, 1}
  /\ \A c \in subscribers :
       outbox[c][Len(outbox[c])] = ActionInsert(lastCall.token, lastCall.data)
  /\ Len(outbox[0]) = 4 /\ Len(outbox[1]) = 4
  /\ lastCall.token \in DOMAIN views /\ views[lastCall.token] = lastCall.data

\* ------------------------------------------------------------------ C6
\* C6: a failed insert leaves views, the files and the frames sent unchanged.
C6_FailedInsertNoPartialState ==
  [][(CallMade /\ lastCall'.op = "insert" /\ ~lastCall'.ok) =>
       (views' = views /\ disk' = disk /\ outbox' = outbox)
    ]_vars

\* ------------------------------------------------------------------ C7
\* C7: remove of a token with no file and no entry succeeds, leaves views
\* unchanged and pushes one Remove notification to every subscriber; remove
\* fails exactly when remove_file fails with an error other than not-found,
\* and then views is unchanged and nothing is pushed.
C7_RemoveAbsent ==
  [][(CallMade /\ lastCall'.op = "remove") =>
       LET t == lastCall'.token
       IN  /\ (/\ t \notin DOMAIN views
               /\ PathJoin(base_path, t) \notin DOMAIN disk
               /\ lastCall'.io = "not_found") =>
                 /\ lastCall'.ok
                 /\ views' = views
                 /\ outbox' = Broadcast(subscribers, ActionRemove(t))
           /\ (~lastCall'.ok) <=> (lastCall'.io = "error")
           /\ (~lastCall'.ok) => (views' = views /\ outbox' = outbox)
    ]_vars

\* a token that was never stored was removed while a subscriber was registered
C7_Witness ==
  /\ lastCall.op = "remove" /\ lastCall.io = "not_found" /\ lastCall.ok
  /\ calls = 1
  /\ 0 \in subscribers
  /\ outbox[0][Len(outbox[0])] = ActionRemove(lastCall.token)
  /\ Len(outbox[0]) = 4

\* ------------------------------------------------------------------ C8
\* C8: the frames dispatched to a newly subscribed connection are CanWrite
\* with the session's flag, Description with the current description, then
\* exactly one Insert per token of views, with its data, and nothing else.
C8_ReplayOrder ==
  [][\A w \in BOOLEAN, ord \in Orders(DOMAIN views) :
       NewSubscribedWebsocket(w, ord) =>
         LET o == outbox'[next_id]
         IN  /\ Len(o) = 2 + Cardinality(DOMAIN views)
             /\ o[1] = ActionCanWrite(w)
             /\ o[2] = ActionDescription(description)
             /\ \A t \in DOMAIN views :
                  Cardinality({ i \in 3 .. Len(o) : o[i] = ActionInsert(t, views[t]) }) = 1
             /\ \A i \in 3 .. Len(o) : o[i].tag = "insert" /\ o[i].token \in DOMAIN views
    ]_vars

\* a connection subscribed while two tokens were stored: its replay has four
\* frames, the last of them for the token that was not inserted last
C8_Witness ==
  /\ calls = 1 /\ lastCall.op = "insert" /\ lastCall.ok
  /\ Cardinality(DOMAIN views) = 2
  /\ next_id = 1
  /\ Len(outbox[0]) = 4
  /\ outbox[0][1].tag = "canWrite" /\ outbox[0][2].tag = "description"
  /\ outbox[0][3] = ActionInsert(lastCall.token, lastCall.data)
  /\ outbox[0][4].tag = "insert" /\ outbox[0][4].token # lastCall.token

\* ------------------------------------------------------------------ C9
\* C9: a connection that subscribes gets one Insert notification for each
\* token stored at that moment and none for any other token; a successful
\* insert of t adds exactly one Insert notification for t to each registered
\* subscriber; no other step adds an Insert notification.
C9_NoDuplicateObservation ==
  [][\A t \in Tokens :
       /\ Subscribed =>
            InsertCount(outbox'[next_id], t) = (IF t \in DOMAIN views THEN 1 ELSE 0)
       /\ (InsertSucceeded /\ lastCall'.token = t) =>
            \A c \in subscribers :
              InsertCount(outbox'[c], t) = InsertCount(outbox[c], t) + 1
       /\ ~(InsertSucceeded /\ lastCall'.token = t) =>
            \A c \in Ids \ (IF Subscribed THEN {next_id} ELSE {}) :
              InsertCount(outbox'[c], t) = InsertCount(outbox[c], t)
    ]_vars

\* connection 0 subscribed before the insert of a new token and got it by the
\* broadcast, connection 1 subscribed after it and got it by the replay
C9_Witness ==
  /\ calls = 1 /\ lastCall.op = "insert" /\ lastCall.ok
  /\ next_id = 2
  /\ Len(outbox[0]) = 4 /\ outbox[0][4] = ActionInsert(lastCall.token, lastCall.data)
  /\ outbox[0][3].token # lastCall.token
  /\ Len(outbox[1]) = 4 /\ outbox[1][3] = ActionInsert(lastCall.token, lastCall.data)
  /\ InsertCount(outbox[0], lastCall.token) = 1
  /\ InsertCount(outbox[1], lastCall.token) = 1

\* ------------------------------------------------------------------ C10
\* C10: a successful mutation dispatches exactly one push to every registered
\* subscriber, whatever became of the earlier pushes; its result depends on its
\* own I/O only; the failure of a push changes nothing but the count of failed
\* pushes of that subscriber; and every pending push can still be delivered.
C10_BroadcastIsolation ==
  /\ [][/\ CallMade =>
             /\ lastCall'.ok <=> (lastCall'.io \in {"ok", "not_found"})
             /\ lastCall'.ok =>
                  \A c \in Ids :
                    Len(outbox'[c]) = Len(outbox[c]) + (IF c \in subscribers THEN 1 ELSE 0)
        /\ \A c \in Ids :
             (failedPushes'[c] # failedPushes[c]) =>
                /\ UNCHANGED << storeVars, connVars, hbVars, outbox, callVars, crashed >>
                /\ delivered' = delivered
                /\ \A d \in Ids \ {c} : failedPushes'[d] = failedPushes[d]
       ]_vars
  /\ [](\A d \in Ids : Pending(d) > 0 => ENABLED PushCompletes(d, TRUE))

\* a remove was broadcast to two subscribers: every push to subscriber 0
\* failed, every push to subscriber 1 was delivered, and the remove succeeded
C10_Witness ==
  /\ subscribers = {0, 1}
  /\ lastCall.op = "remove" /\ lastCall.ok
  /\ outbox[0][Len(outbox[0])] = ActionRemove(lastCall.token)
  /\ outbox[1][Len(outbox[1])] = ActionRemove(lastCall.token)
  /\ failedPushes[0] = Len(outbox[0])
  /\ delivered[1] = Len(outbox[1])

\* ------------------------------------------------------------------ C12
\* C12: next_id never decreases; the id a subscribe hands out is greater than
\* every id handed out before, to live and to dropped connections alike, so no
\* two connections ever have the same id.
C12_IdsNeverReused ==
  [][/\ next_id' >= next_id
     /\ Subscribed =>
          LET id == next_id
          IN  /\ id \notin HandedOut
              /\ \A c \in HandedOut : c < id
              /\ streams' = streams \cup {id}
              /\ subscribers' = subscribers \cup {id}
              /\ next_id' > id
    ]_vars

\* connection 0 was dropped and another connection subscribed after that
C12_Witness ==
  /\ TornDown(0)
  /\ 1 \in streams /\ 1 \in subscribers
  /\ hb[1] = "Sending"
  /\ next_id = 2
  /\ Len(outbox[0]) = 3 /\ Len(outbox[1]) = 3

\* ------------------------------------------------------------------ C13
\* C13: the drop of a stream removes its id from subscribers and cancels its
\* ping-pong chain; afterwards no ping is sent on it, its heartbeat makes no
\* step, and no frame is pushed to it.
C13_TeardownCancels ==
  /\ [](\A c \in Ids : TornDown(c) => (c \notin subscribers /\ hb[c] = "Cancelled"))
  /\ [][\A c \in Ids :
          /\ (c \in streams /\ c \notin streams') =>
               (c \notin subscribers' /\ hb'[c] = "Cancelled")
          /\ TornDown(c) =>
               /\ TornDown(c)'
               /\ pings'[c] = pings[c]
               /\ hb'[c] = hb[c]
               /\ outbox'[c] = outbox[c]
       ]_vars

\* connection 0 was dropped while its ping was awaited, then an insert was
\* broadcast: connection 1 got it, connection 0 did not
C13_Witness ==
  /\ TornDown(0) /\ pings[0] = 1
  /\ subscribers = {1}
  /\ calls = 1 /\ lastCall.op = "insert" /\ lastCall.ok
  /\ Len(outbox[1]) = 4
  /\ outbox[1][4] = ActionInsert(lastCall.token, lastCall.data)
  /\ Len(outbox[0]) = 3

\* ------------------------------------------------------------------ C14
\* C14: a stream on which a frame with opcode 0x8 came in is eventually torn
\* down.
C14_CloseTearsDown ==
  \A c \in Ids : (c \in close_received) ~> (c \notin streams)

\* ------------------------------------------------------------------ C15
\* C15: the frame of a text of n < 65536 bytes is 0x81, then the byte n if
\* n < 126, else 0x7e and two bytes whose value, high byte first, is n; then
\* the n bytes of the text; the second byte never has the mask bit.
C15_EncodeShortAnd16Bit ==
  (frame # <<>> /\ Len(payload) < 65536) =>
    LET n == Len(payload)
        h == IF n < 126 THEN 2 ELSE 4
    IN  /\ frame[1] = 129
        /\ frame[2] < 128
        /\ IF n < 126 THEN frame[2] = n
           ELSE /\ frame[2] = 126
                /\ frame[3] \in 0 .. 255 /\ frame[4] \in 0 .. 255
                /\ frame[3] * 256 + frame[4] = n
        /\ Len(frame) = h + n
        /\ SubSeq(frame, h + 1, Len(frame)) = payload

\* the longest text of the 16-bit tier was encoded
C15_Witness ==
  /\ Len(payload) = 65535
  /\ Len(frame) = 65539
  /\ frame[2] = 126 /\ frame[3] = 255 /\ frame[4] = 255

\* ------------------------------------------------------------------ C16
\* C16: the frame of a text of n >= 65536 bytes is 0x81, 0x7f, then eight
\* bytes whose value, most significant byte first, is n (byte k holds bits
\* 8*(7-k) .. 8*(7-k)+7 of n), then the text.
C16_Encode64Bit ==
  (frame # <<>> /\ Len(payload) >= 65536) =>
    LET n == Len(payload)
    IN  /\ frame[1] = 129
        /\ frame[2] = 127
        /\ \A k \in 0 .. 7 : frame[3 + k] = U8(Shr(n, 8 * (7 - k)))
        /\ Len(frame) = 10 + n
        /\ SubSeq(frame, 11, Len(frame)) = payload

\* ------------------------------------------------------------------ C17
\* C17: for a text of at most 125 bytes, the fields send_bytes extracts from
\* the encoded frame are opcode 1, not masked, length n, and the bytes after
\* the two header bytes are the text.
C17_CodecRoundTrip ==
  (frame # <<>> /\ Len(payload) <= 125) =>
    /\ Opcode(frame) = 1
    /\ ~Masked(frame)
    /\ Length(frame) = Len(payload)
    /\ SubSeq(frame, 3, Len(frame)) = payload

\* the longest text of the short tier was encoded
C17_Witness ==
  /\ Len(payload) = 125
  /\ Len(frame) = 127
  /\ Opcode(frame) = 1 /\ Length(frame) = 125

\* ------------------------------------------------------------------ C11
\* C11: a successful insert, remove or update_description puts its
\* notification behind every frame dispatched before to each registered
\* subscriber, and no other step changes the frames of a connection (but its
\* own subscription, which starts them); so the frames of a subscriber are in
\* the order in which the mutations were applied.
C11_NotificationOrder ==
  [][\A c \in Ids :
       IF Subscribed /\ c = next_id THEN outbox[c] = << >>
       ELSE IF CallMade /\ lastCall'.ok /\ c \in subscribers
         THEN outbox'[c] = Append(outbox[c], MessageOf(lastCall'))
         ELSE outbox'[c] = outbox[c]
    ]_vars

\* a subscriber saw the description change and then a reference go, in the
\* order of the two calls
C11_Witness ==
  /\ calls = 2 /\ lastCall.op = "remove" /\ lastCall.ok
  /\ 0 \in subscribers
  /\ Len(outbox[0]) = 5
  /\ outbox[0][4] = ActionDescription(description) /\ description # DefaultDescription
  /\ outbox[0][5] = ActionRemove(lastCall.token)

\* ------------------------------------------------------------------ C18
\* C18: when a call of a POST's chain fails, no later call was issued and none
\* was issued twice, insert was not called, and the request is answered with a
\* client error that has the description of the failure; when insert fails the
\* answer is a client error with its error; and no step of a chain but a
\* successful insert changes the entries, the files or the frames dispatched.
C18_FailFast ==
  /\ [](\A k \in PostIds :
          /\ \A i \in DOMAIN chains[k].issued : chains[k].issued[i] = ChainCalls[i]
          /\ \A i \in 1 .. 4 : FailedAt(k, i) =>
                /\ Len(chains[k].issued) = i
                /\ chains[k].inserts = << >>
                /\ chains[k].response =
                     ClientError("badRequest", DescriptionHtml(RemoteError(ChainCalls[i])))
          /\ InsertFailed(k) =>
                /\ Len(chains[k].inserts) = 1
                /\ chains[k].response.kind = "clientError"
                /\ chains[k].response.text \in { DescriptionHtml(io) : io \in InsertIOs \ {"ok"} })
  /\ [][\A k \in PostIds :
          (chains'[k] # chains[k] /\ ~(InsertSucceeded /\ chains'[k].response = Content)) =>
             UNCHANGED << views, disk, outbox >>
       ]_vars

\* ------------------------------------------------------------------ C19
\* C19: the remote calls of a POST are claimRequest, getViewInfo, getUrl and
\* save, in this order, each sent once the one before has succeeded; insert is
\* called at most once, after save succeeded, with the token save returned,
\* the title read from the request's content and the identity of the session;
\* and the request is answered with content only after insert succeeded.
C19_ChainOrder ==
  /\ [](\A k \in PostIds :
          LET ch == chains[k]
          IN  /\ \A i \in DOMAIN ch.issued : ch.issued[i] = ChainCalls[i]
              /\ Len(ch.outcomes) <= Len(ch.issued)
              /\ Len(ch.issued) <= Len(ch.outcomes) + 1
              /\ \A i \in DOMAIN ch.issued : i < Len(ch.issued) => ch.outcomes[i] = "ok"
              /\ Len(ch.inserts) <= 1
              /\ ch.inserts # << >> =>
                    /\ Len(ch.outcomes) = 4
                    /\ \A i \in 1 .. 4 : ch.outcomes[i] = "ok"
                    /\ ch.inserts[1].title = ch.grain_title
                    /\ ch.inserts[1].added_by = ch.identity_id
              /\ ch.response = Content => (ch.inserts # << >> /\ ch.inserts[1].ok))
  /\ [][\A k \in PostIds :
          /\ (chains[k].awaiting = "none" /\ chains'[k].awaiting # "none") =>
               \A sess \in Sessions, path \in Paths, content \in PostContents :
                 Post(sess, path, content) =>
                   /\ chains'[k].grain_title = GrainTitle(content.tags)
                   /\ chains'[k].identity_id = sess.identity_id
          /\ Len(chains'[k].inserts) > Len(chains[k].inserts) =>
               /\ chains[k].awaiting = "save"
               /\ CallMade /\ lastCall'.op = "insert"
               /\ lastCall'.bytes = chains'[k].inserts[1].binary_token
               /\ lastCall'.token = ToBase64(lastCall'.bytes)
               /\ lastCall'.data.title = chains[k].grain_title
               /\ lastCall'.data.added_by = chains[k].identity_id
               /\ lastCall'.ok = chains'[k].inserts[1].ok
          /\ (chains'[k] # chains[k] /\ Len(chains'[k].inserts) = Len(chains[k].inserts)) =>
               ~CallMade
          /\ Len(chains'[k].issued) > Len(chains[k].issued) =>
               \/ chains[k].awaiting = "none" /\ Len(chains'[k].issued) = 1
               \/ /\ Len(chains'[k].issued) = Len(chains[k].issued) + 1
                  /\ chains'[k].outcomes = Append(chains[k].outcomes, "ok")
       ]_vars

\* the POST of the reader's session went through its four calls and insert:
\* the reference is stored with the title of the last tag and that identity,
\* and the request is answered with content
C19_Witness ==
  /\ chains[1].awaiting = "done" /\ chains[1].response = Content
  /\ chains[1].issued = ChainCalls
  /\ chains[1].identity_id = "0b"
  /\ lastCall.op = "insert" /\ lastCall.ok
  /\ lastCall.token \in DOMAIN views
  /\ views[lastCall.token].title = "Notes"
  /\ views[lastCall.token].added_by = "0b"
  /\ 0 \in subscribers /\ outbox[0][Len(outbox[0])] = ActionInsert(lastCall.token, lastCall.data)

\* ------------------------------------------------------------------ C20
\* C20: a request with a non-canonical path (GET, POST, PUT, DELETE), a POST
\* whose content is not base64 or does not read as a descriptor, and a DELETE
\* whose path does not start with sturdyref/ are answered with a client-error
\* response, not with a failed call; no remote call is issued and the store is
\* unchanged.
C20_ClientErrorsAreResponses ==
  [][\A sess \in Sessions, path \in Paths :
       /\ \A fs \in Lookups :
            (Get(sess, path, fs) /\ ~RequireCanonicalPath(path)) => Rejected
       /\ \A content \in PostContents :
            (/\ Post(sess, path, content)
             /\ (~RequireCanonicalPath(path) \/ ~content.base64 \/ ~content.readable))
              => Rejected
       /\ \A content \in DescriptionInputs, io \in UpdateIOs :
            (Put(sess, path, content, io) /\ ~RequireCanonicalPath(path)) => Rejected
       /\ \A io \in RemoveIOs :
            (/\ Delete(sess, path, io)
             /\ (~RequireCanonicalPath(path) \/ ~StartsWith(path, "sturdyref")))
              => Rejected
    ]_vars

\* ------------------------------------------------------------------ C21
\* C21: when the session lacks the write permission, a PUT on a canonical path
\* and a DELETE on a canonical path under sturdyref/ are answered with the
\* Forbidden client error, and entries, description, the files on disk and the
\* frames sent to the subscribers are unchanged.
C21_PermissionGating ==
  [][lastReq' # lastReq =>
       \A sess \in Sessions, path \in Paths :
         (~sess.can_write /\ RequireCanonicalPath(path)) =>
           /\ \A content \in DescriptionInputs, io \in UpdateIOs :
                Put(sess, path, content, io) =>
                  /\ lastReq'.response = ClientError("forbidden", "")
                  /\ UNCHANGED << storeVars, outbox >>
           /\ \A io \in RemoveIOs :
                (Delete(sess, path, io) /\ StartsWith(path, "sturdyref")) =>
                  /\ lastReq'.response = ClientError("forbidden", "")
                  /\ UNCHANGED << storeVars, outbox >>
    ]_vars

\* a DELETE was answered with Forbidden
C21_Witness ==
  lastReq = Request("DELETE", ClientError("forbidden", ""))

\* C21 as stated: the same for a DELETE on any path under sturdyref/, canonical
\* or not.
C21_AsStated ==
  [][lastReq' # lastReq =>
       \A sess \in Sessions, path \in Paths :
         ~sess.can_write =>
           /\ \A content \in DescriptionInputs, io \in UpdateIOs :
                (Put(sess, path, content, io) /\ RequireCanonicalPath(path)) =>
                  /\ lastReq'.response = ClientError("forbidden", "")
                  /\ UNCHANGED << storeVars, outbox >>
           /\ \A io \in RemoveIOs :
                (Delete(sess, path, io) /\ StartsWith(path, "sturdyref")) =>
                  /\ lastReq'.response = ClientError("forbidden", "")
                  /\ UNCHANGED << storeVars, outbox >>
    ]_vars

\* ------------------------------------------------------------------ C22
\* C22: require_canonical_path rejects a path exactly when, split on "/", it has
\* a segment "." or "..", or an empty segment that is neither the first one
\* (a leading "/") nor the last one (a trailing "/"); it rejects "a/../b", "./x"
\* and "a//b" and accepts "a/b/c" and "".
C22_PathCanonicalization ==
  canonical # "unchecked" =>
    /\ canonical = "err" <=>
          \E idx \in DOMAIN req_path :
            \/ req_path[idx] \in { ".", ".." }
            \/ req_path[idx] = "" /\ idx > 1 /\ idx < Len(req_path)
    /\ req_path \in { << "a", "..", "b" >>, << ".", "x" >>, << "a", "", "b" >> }
           => canonical = "err"
    /\ req_path \in { << "a", "b", "c" >>, << "" >> } => canonical = "ok"

\* "a//b" was checked and rejected
C22_Witness == req_path = << "a", "", "b" >> /\ canonical = "err"

\* C22 as stated: every empty segment before the last one makes the path
\* rejected, the first one (a leading "/") too.
C22_AsStated ==
  canonical # "unchecked" =>
    /\ canonical = "err" <=>
          \E idx \in DOMAIN req_path :
            \/ req_path[idx] \in { ".", ".." }
            \/ req_path[idx] = "" /\ idx < Len(req_path)
    /\ req_path \in { << "a", "..", "b" >>, << ".", "x" >>, << "a", "", "b" >> }
           => canonical = "err"
    /\ req_path \in { << "a", "b", "c" >>, << "" >> } => canonical = "ok"

\* ------------------------------------------------------------------ C23
\* C23: update_description of bytes that are not UTF-8 returns an error and
\* leaves the description, the files and the frames sent unchanged; of valid
\* text that is written, it sets the description to the text, has the text in
\* the description file, and pushes exactly one Description notification with
\* it to every subscriber; when the write of the temporary file or the rename
\* fails, the description is unchanged and nothing is pushed.
C23_UpdateDescription ==
  [][(CallMade /\ lastCall'.op = "update_description") =>
       LET bytes == lastCall'.bytes
       IN  IF ~IsUtf8(bytes) THEN
             /\ ~lastCall'.ok
             /\ UNCHANGED << description, disk, outbox >>
           ELSE IF lastCall'.io = "ok" THEN
             /\ lastCall'.ok
             /\ description' = bytes
             /\ disk'[DescriptionPath] = TextFile(bytes)
             /\ outbox' = Broadcast(subscribers, ActionDescription(bytes))
           ELSE
             /\ ~lastCall'.ok
             /\ UNCHANGED << description, outbox >>
             /\ disk'[DescriptionPath] = disk[DescriptionPath]
    ]_vars

\* a description was written while two subscribers were registered, and after
\* it an update failed at the rename
C23_Witness ==
  /\ calls = 2
  /\ lastCall.op = "update_description" /\ lastCall.io = "rename_failed"
  /\ subscribers = {0, 1}
  /\ description # DefaultDescription /\ description # lastCall.bytes
  /\ \A c \in subscribers :
       outbox[c][Len(outbox[c])] = ActionDescription(description)

\* ------------------------------------------------------------------ C24
\* C24: a successful insert of a token that has an entry already (the second
\* of two inserts with the same binary token) leaves one entry and one file
\* for the token, holding the title, added_by and date of this insert; every
\* subscriber, whose last Insert frame for the token carried the data of the
\* entry before, is pushed one more Insert frame with the new data.
C24_LastWriteWins ==
  [][(InsertSucceeded /\ lastCall'.token \in DOMAIN views) =>
       LET t == lastCall'.token
           e == lastCall'.data
           inserts(c) == { i \in DOMAIN outbox[c] :
                             outbox[c][i].tag = "insert" /\ outbox[c][i].token = t }
       IN  /\ DOMAIN views' = DOMAIN views
           /\ views'[t] = e
           /\ DOMAIN disk' = DOMAIN disk
           /\ disk'[PathJoin(base_path, t)] = MetadataFile(e)
           /\ (lastCall.op = "insert" /\ lastCall.ok /\ lastCall.token = t)
                 => views[t] = lastCall.data
           /\ \A c \in subscribers :
                /\ outbox'[c] = Append(outbox[c], ActionInsert(t, e))
                /\ \E i \in inserts(c) :
                     /\ \A j \in inserts(c) : j <= i
                     /\ outbox[c][i].data = views[t]
    ]_vars

\* two inserts of the token of <<255>> succeeded, with different data, while a
\* subscriber was registered: its last two frames are the two Insert frames
C24_Witness ==
  /\ calls = 2
  /\ lastCall.op = "insert" /\ lastCall.ok /\ lastCall.bytes = << 255 >>
  /\ Cardinality(DOMAIN views) = 2
  /\ views[lastCall.token] = lastCall.data
  /\ \E c \in subscribers :
       LET n == Len(outbox[c])
       IN  /\ n = 5
           /\ outbox[c][n] = ActionInsert(lastCall.token, lastCall.data)
           /\ outbox[c][n - 1].tag = "insert"
           /\ outbox[c][n - 1].token = lastCall.token
           /\ outbox[c][n - 1].data # lastCall.data

\* ------------------------------------------------------------------ C25
\* C25: send_bytes accepts every inbound frame, those of 0 and of 1 byte too:
\* the process keeps running, the entries, the description and the subscribers
\* are unchanged, and awaiting_pong changes only on a frame with opcode 0xA,
\* which sets it to false.
C25_InboundFramesAccepted ==
  [][\A c \in Ids, m \in InFrames :
       SendBytes(c, m) =>
         /\ ~crashed'
         /\ UNCHANGED << storeVars, subscribers >>
         /\ awaiting_pong' # awaiting_pong =>
              /\ Len(m) >= 1 /\ m[1] % 16 = 10
              /\ awaiting_pong' = [awaiting_pong EXCEPT ![c] = FALSE]
    ]_vars

\* ------------------------------------------------------------------ C26
\* C26: the keys of the subscribers map are the ids of the streams created by a
\* subscription and not dropped since, each below next_id; a stream whose
\* heartbeat has failed and that is still held stays in the map and is sent
\* the frame of every mutation.
C26_RegistryMatchesStreams ==
  /\ [](/\ subscribers = streams
        /\ streams = { c \in HandedOut : hb[c] # "Cancelled" }
        /\ \A c \in subscribers : c < next_id)
  /\ [][\A c \in streams :
          (hb[c] \in {"Failed", "SendFailed"} /\ CallMade /\ lastCall'.ok) =>
             /\ c \in subscribers'
             /\ outbox'[c] = Append(outbox[c], MessageOf(lastCall'))
       ]_vars

\* the heartbeat of stream 0 timed out, the stream is still registered, next to
\* a healthy one, and the frame of the last mutation was sent to it
C26_Witness ==
  /\ hb[0] = "Failed" /\ 0 \in subscribers
  /\ 1 \in subscribers /\ hb[1] = "Waiting"
  /\ calls >= 1 /\ lastCall.ok
  /\ outbox[0][Len(outbox[0])] = MessageOf(lastCall)

\* ------------------------------------------------------------------ C28
\* C28: on each connection a ping is sent only when the stream is created or
\* when the deadline of the cycle before fires with awaiting_pong false; the
\* deadline is started only when the send of the cycle's ping has completed;
\* the heartbeat fails only by a deadline firing with awaiting_pong true or by
\* a failed send; and after a failure no ping is sent and no deadline started.
C28_HeartbeatDiscipline ==
  [][\A c \in Ids :
       /\ (hb'[c] = "Sending" /\ hb[c] # "Sending") =>
            \/ hb[c] = "None" /\ Subscribed /\ c = next_id
            \/ hb[c] = "Waiting" /\ ~awaiting_pong[c]
       /\ pings'[c] # pings[c] => (hb'[c] = "Sending" /\ hb[c] # "Sending")
       /\ (hb'[c] = "Waiting" /\ hb[c] # "Waiting") => hb[c] = "Sending"
       /\ (hb'[c] = "Failed" /\ hb[c] # "Failed") => (hb[c] = "Waiting" /\ awaiting_pong[c])
       /\ (hb'[c] = "SendFailed" /\ hb[c] # "SendFailed") => hb[c] = "Sending"
       /\ hb[c] \in {"Failed", "SendFailed"} =>
            (hb'[c] \in {hb[c], "Cancelled"} /\ pings'[c] = pings[c])
       /\ hb[c] = "Cancelled" => (hb'[c] = "Cancelled" /\ pings'[c] = pings[c])
    ]_vars

\* stream 0 failed at its first deadline; stream 1 is in its second cycle
C28_Witness ==
  /\ hb[0] = "Failed" /\ pings[0] = 1
  /\ hb[1] = "Sending" /\ pings[1] = 2 /\ awaiting_pong[1]

\* ------------------------------------------------------------------ C27
\* C27: no request or upgrade of a session without the write permission, and
\* no step of a chain such a session started, changes the entries or the files
\* of the tokens.
C27_ReadersCannotChange ==
  [][views' = views /\ TokenFiles' = TokenFiles]_vars

====
